---- MODULE Spec2Model ----
(***************************************************************************)
(* Mergington High School API (src/src/app.py): six in-memory mappings and  *)
(* the request handlers that read and write them.  Every handler is one     *)
(* action; the last request handled and the response it produced are kept   *)
(* in the variables request and response.                                   *)
(*                                                                          *)
(* A Python dict is modelled as a TLA+ function whose DOMAIN is the dict's   *)
(* key set (iteration order is not modelled); a Python list is a sequence;  *)
(* an f-string is string concatenation.                                     *)
(***************************************************************************)
EXTENDS Integers, Sequences, FiniteSets, TLC

VARIABLES activities, students, courses, enrollments, attendance, payments,
          request, response, inflight

vars == <<activities, students, courses, enrollments, attendance, payments,
          request, response, inflight>>

stores == <<activities, students, courses, enrollments, attendance, payments>>

(***************************************************************************)
(* Bounds of the model: how many values of each pool the requests draw on.  *)
(***************************************************************************)
MaxActivityNames == 2
MaxEmails == 3
MaxStudentEmails == 2
MaxNames == 2
MaxCourseNames == 2
MaxDates == 2
MaxRequests == 2

Min(a, b) == IF a <= b THEN a ELSE b

Take(pool, n) == {pool[i] : i \in 1..Min(n, Len(pool))}

Range(s) == {s[i] : i \in 1..Len(s)}

\* Number of occurrences of x in the list s (Python: s.count(x)).
Count(s, x) == Cardinality({i \in 1..Len(s) : s[i] = x})

\* Python: x in s, for a list s.
InList(x, s) == \E i \in 1..Len(s) : s[i] = x

\* A faulty append: list.insert(0, x).
Prepend(s, x) == <<x>> \o s

\* Python: list.append(x).
Append_(s, x) == s \o <<x>>

\* A faulty removal: list.pop(), which drops the last element whatever x is.
Pop(s, x) == SubSeq(s, 1, Len(s) - 1)

\* Python: list.remove(x) removes the first occurrence of x.
FirstIndex(s, x) == CHOOSE i \in 1..Len(s) : s[i] = x /\ \A j \in 1..(i - 1) : s[j] # x

Remove(s, x) == LET k == FirstIndex(s, x)
                IN  [i \in 1..(Len(s) - 1) |-> IF i < k THEN s[i] ELSE s[i + 1]]

\* Python: del d[k].
Del(d, k) == [x \in (DOMAIN d) \ {k} |-> d[x]]

\* Python: d[k] = v.
Put(d, k, v) == [x \in (DOMAIN d) \cup {k} |-> IF x = k THEN v ELSE d[x]]

EmptyDict == [x \in {} |-> x]

(***************************************************************************)
(* The seeded activity database.                                            *)
(***************************************************************************)
Activity(description, schedule, max_participants, participants) ==
    [description |-> description, schedule |-> schedule,
     max_participants |-> max_participants, participants |-> participants]

SeedActivities ==
    [n \in {"Chess Club", "Programming Class", "Gym Class", "Soccer Team",
            "Basketball Team", "Art Club", "Drama Club", "Math Club", "Debate Team"} |->
       CASE n = "Chess Club" ->
              Activity("Learn strategies and compete in chess tournaments",
                       "Fridays, 3:30 PM - 5:00 PM", 12,
                       <<"michael@mergington.edu", "daniel@mergington.edu">>)
         [] n = "Programming Class" ->
              Activity("Learn programming fundamentals and build software projects",
                       "Tuesdays and Thursdays, 3:30 PM - 4:30 PM", 20,
                       <<"emma@mergington.edu", "sophia@mergington.edu">>)
         [] n = "Gym Class" ->
              Activity("Physical education and sports activities",
                       "Mondays, Wednesdays, Fridays, 2:00 PM - 3:00 PM", 30,
                       <<"john@mergington.edu", "olivia@mergington.edu">>)
         [] n = "Soccer Team" ->
              Activity("Join the school soccer team and compete in matches",
                       "Tuesdays and Thursdays, 4:00 PM - 5:30 PM", 22,
                       <<"liam@mergington.edu", "noah@mergington.edu">>)
         [] n = "Basketball Team" ->
              Activity("Practice and play basketball with the school team",
                       "Wednesdays and Fridays, 3:30 PM - 5:00 PM", 15,
                       <<"ava@mergington.edu", "mia@mergington.edu">>)
         [] n = "Art Club" ->
              Activity("Explore your creativity through painting and drawing",
                       "Thursdays, 3:30 PM - 5:00 PM", 15,
                       <<"amelia@mergington.edu", "harper@mergington.edu">>)
         [] n = "Drama Club" ->
              Activity("Act, direct, and produce plays and performances",
                       "Mondays and Wednesdays, 4:00 PM - 5:30 PM", 20,
                       <<"ella@mergington.edu", "scarlett@mergington.edu">>)
         [] n = "Math Club" ->
              Activity("Solve challenging problems and participate in math competitions",
                       "Tuesdays, 3:30 PM - 4:30 PM", 10,
                       <<"james@mergington.edu", "benjamin@mergington.edu">>)
         [] OTHER ->
              Activity("Develop public speaking and argumentation skills",
                       "Fridays, 4:00 PM - 5:30 PM", 12,
                       <<"charlotte@mergington.edu", "henry@mergington.edu">>)]

(***************************************************************************)
(* Request inputs.                                                          *)
(***************************************************************************)
ActivityNamePool == <<"Chess Club", "Unknown Club", "Math Club", "Debate Team">>
ActivityNames == Take(ActivityNamePool, MaxActivityNames)

EmailPool == <<"michael@mergington.edu", "new@x.edu", "daniel@mergington.edu",
               "other@x.edu", "james@mergington.edu">>
Emails == Take(EmailPool, MaxEmails)

(***************************************************************************)
(* Requests and responses.                                                  *)
(***************************************************************************)
Request(op, args) == [op |-> op, args |-> args]

\* return {"message": ...}: status 200.
Ok(message) == [status_code |-> 200, body |-> message]

\* raise HTTPException(status_code=..., detail=...).
HTTPException(status_code, detail) == [status_code |-> status_code, body |-> detail]

NoRequest == Request("none", <<>>)
NoResponse == [status_code |-> 0, body |-> ""]

Init ==
    /\ activities = SeedActivities
    /\ students = EmptyDict
    /\ courses = EmptyDict
    /\ enrollments = EmptyDict
    /\ attendance = EmptyDict
    /\ payments = EmptyDict
    /\ request = NoRequest
    /\ response = NoResponse
    /\ inflight = EmptyDict

(***************************************************************************)
(* Activities.                                                              *)
(***************************************************************************)
get_activities == activities

\* A faulty membership test: compares the email with the first participant only.
FirstParticipantIs(email, participants) ==
    Len(participants) > 0 /\ participants[1] = email

\* The membership test of signup_for_activity.
AlreadySignedUp(email, participants) == InList(email, participants)

signup_for_activity(activity_name, email) ==
    /\ request' = Request("signup_for_activity", <<activity_name, email>>)
    /\ IF activity_name \notin DOMAIN activities
       THEN /\ response' = HTTPException(404, "Activity not found")
            /\ UNCHANGED activities
       ELSE LET activity == activities[activity_name]
            IN  IF AlreadySignedUp(email, activity.participants)
                THEN /\ response' = HTTPException(400, "Student is already signed up")
                     /\ UNCHANGED activities
                ELSE /\ activities' = [activities EXCEPT ![activity_name].participants =
                                           Append_(activity.participants, email)]
                     /\ response' = Ok("Signed up " \o email \o " for " \o activity_name)
    /\ UNCHANGED <<students, courses, enrollments, attendance, payments, inflight>>

unregister_from_activity(activity_name, email) ==
    /\ request' = Request("unregister_from_activity", <<activity_name, email>>)
    /\ IF activity_name \notin DOMAIN activities
       THEN /\ response' = HTTPException(404, "Activity not found")
            /\ UNCHANGED activities
       ELSE LET activity == activities[activity_name]
            IN  IF ~InList(email, activity.participants)
                THEN /\ response' = HTTPException(400, "Student is not signed up for this activity")
                     /\ UNCHANGED activities
                ELSE /\ activities' = [activities EXCEPT ![activity_name].participants =
                                           Remove(activity.participants, email)]
                     /\ response' = Ok("Unregistered " \o email \o " from " \o activity_name)
    /\ UNCHANGED <<students, courses, enrollments, attendance, payments, inflight>>

Signup == \E activity_name \in ActivityNames, email \in Emails :
              signup_for_activity(activity_name, email)

Unregister == \E activity_name \in ActivityNames, email \in Emails :
                  unregister_from_activity(activity_name, email)

\* Each handler reads and writes one mapping only, so each group of routes has
\* its own next-state relation and specification; Spec is that of the activities.
Next == Signup \/ Unregister

Spec == Init /\ [][Next]_vars

(***************************************************************************)
(* Concurrent signups.  The handler is a plain def, which the framework     *)
(* runs on a worker thread per request, and it takes no lock: the checks    *)
(* (the activity exists, the email is not in the list) and the append are   *)
(* separate steps of a request, and steps of different requests interleave. *)
(* inflight maps a request id to its arguments, its position in the handler *)
(* and the status it was answered with (0 while it runs).                   *)
(***************************************************************************)
RequestIds == 1..MaxRequests

\* A signup request is handed to a worker thread.
accept_signup(r, activity_name, email) ==
    /\ r \notin DOMAIN inflight
    /\ inflight' = Put(inflight, r, [activity_name |-> activity_name, email |-> email,
                                     pc |-> "validate", status_code |-> 0])
    /\ UNCHANGED <<stores, request, response>>

\* The two checks of signup_for_activity.
signup_validate(r) ==
    /\ r \in DOMAIN inflight
    /\ inflight[r].pc = "validate"
    /\ IF inflight[r].activity_name \notin DOMAIN activities
       THEN inflight' = [inflight EXCEPT ![r].pc = "done", ![r].status_code = 404]
       ELSE IF AlreadySignedUp(inflight[r].email,
                               activities[inflight[r].activity_name].participants)
            THEN inflight' = [inflight EXCEPT ![r].pc = "done", ![r].status_code = 400]
            ELSE inflight' = [inflight EXCEPT ![r].pc = "append"]
    /\ UNCHANGED <<stores, request, response>>

\* The append of signup_for_activity and its return.
signup_append(r) ==
    /\ r \in DOMAIN inflight
    /\ inflight[r].pc = "append"
    /\ activities' = [activities EXCEPT ![inflight[r].activity_name].participants =
                          Append_(@, inflight[r].email)]
    /\ inflight' = [inflight EXCEPT ![r].pc = "done", ![r].status_code = 200]
    /\ UNCHANGED <<students, courses, enrollments, attendance, payments,
                   request, response>>

NextConcurrent ==
    \/ \E r \in RequestIds, activity_name \in ActivityNames, email \in Emails :
           accept_signup(r, activity_name, email)
    \/ \E r \in RequestIds : signup_validate(r)
    \/ \E r \in RequestIds : signup_append(r)

SpecConcurrent == Init /\ [][NextConcurrent]_vars

(***************************************************************************)
(* Admin inputs.  None is Python's None (no phone or instructor drawn below *)
(* equals it).  The enrollment inputs hold the separator "_" in a student   *)
(* email and in a course name: the handlers accept any string.              *)
(***************************************************************************)
None == "None"

StudentEmailPool == <<"kim@x.edu", "lee@x.edu", "ann@x.edu">>
StudentEmails == Take(StudentEmailPool, MaxStudentEmails)

NamePool == <<"Kim", "Lee", "Ann">>
Names == Take(NamePool, MaxNames)

\* class Student(BaseModel)
Student == [name : Names, email : StudentEmails, grade : {"10"}, phone : {None}]

CourseNamePool == <<"Algebra", "Biology", "Chemistry">>
CourseNames == Take(CourseNamePool, MaxCourseNames)

\* class Course(BaseModel)
Course == [name : CourseNames, description : {"A course"}, schedule : {"Mondays"},
           max_participants : {20}, instructor : {None, "Ms. Ray"}]

DatePool == <<"2024-09-02", "2024-09-03">>
Dates == Take(DatePool, MaxDates)

\* The one day attendance and payments are recorded for.
RecordDates == {"2024-09-02"}

EnrollmentEmails == {"kim@x.edu", "kim@x.edu_art"}
EnrollmentCourses == {"art_101", "101"}

\* class Enrollment(BaseModel)
Enrollment == [student_email : EnrollmentEmails, course_name : EnrollmentCourses,
               enrollment_date : Dates]

\* class AttendanceRecord(BaseModel)
AttendanceRecord == [student_email : EnrollmentEmails, course_name : EnrollmentCourses,
                     date : RecordDates, present : BOOLEAN]

\* class Payment(BaseModel); amount is a float with an integral value.
Payment == [student_email : EnrollmentEmails, amount : {50},
            course_name : EnrollmentCourses, payment_date : RecordDates,
            status : {"paid"}]

\* BaseModel.dict(): the model's fields as a dict.
dict(model) == model

\* str() of a float with an integral value, as an f-string prints it.
FloatStr(amount) == ToString(amount) \o ".0"

(***************************************************************************)
(* Student management.                                                      *)
(***************************************************************************)
get_all_students == students

\* A faulty create_student: no check for an existing email, the record is overwritten.
create_student_overwrites(student) ==
    /\ request' = Request("create_student", <<student>>)
    /\ students' = Put(students, student.email, dict(student))
    /\ response' = Ok("Student " \o student.name \o " created successfully")
    /\ UNCHANGED <<activities, courses, enrollments, attendance, payments, inflight>>

create_student(student) ==
    /\ request' = Request("create_student", <<student>>)
    /\ IF student.email \in DOMAIN students
       THEN /\ response' = HTTPException(400, "Student already exists")
            /\ UNCHANGED students
       ELSE /\ students' = Put(students, student.email, dict(student))
            /\ response' = Ok("Student " \o student.name \o " created successfully")
    /\ UNCHANGED <<activities, courses, enrollments, attendance, payments, inflight>>

update_student(student_email, student) ==
    /\ request' = Request("update_student", <<student_email, student>>)
    /\ IF student_email \notin DOMAIN students
       THEN /\ response' = HTTPException(404, "Student not found")
            /\ UNCHANGED students
       ELSE /\ students' = Put(students, student_email, dict(student))
            /\ response' = Ok("Student " \o student.name \o " updated successfully")
    /\ UNCHANGED <<activities, courses, enrollments, attendance, payments, inflight>>

delete_student(student_email) ==
    /\ request' = Request("delete_student", <<student_email>>)
    /\ IF student_email \notin DOMAIN students
       THEN /\ response' = HTTPException(404, "Student not found")
            /\ UNCHANGED students
       ELSE /\ students' = Del(students, student_email)
            /\ response' = Ok("Student " \o student_email \o " deleted successfully")
    /\ UNCHANGED <<activities, courses, enrollments, attendance, payments, inflight>>

NextStudents ==
    \/ \E student \in Student : create_student(student)
    \/ \E student_email \in StudentEmails, student \in Student :
           update_student(student_email, student)
    \/ \E student_email \in StudentEmails : delete_student(student_email)

SpecStudents == Init /\ [][NextStudents]_vars

(***************************************************************************)
(* Course management.                                                       *)
(***************************************************************************)
get_all_courses == courses

create_course(course) ==
    /\ request' = Request("create_course", <<course>>)
    /\ IF course.name \in DOMAIN courses
       THEN /\ response' = HTTPException(400, "Course already exists")
            /\ UNCHANGED courses
       ELSE /\ courses' = Put(courses, course.name, dict(course))
            /\ response' = Ok("Course " \o course.name \o " created successfully")
    /\ UNCHANGED <<activities, students, enrollments, attendance, payments, inflight>>

update_course(course_name, course) ==
    /\ request' = Request("update_course", <<course_name, course>>)
    /\ IF course_name \notin DOMAIN courses
       THEN /\ response' = HTTPException(404, "Course not found")
            /\ UNCHANGED courses
       ELSE /\ courses' = Put(courses, course_name, dict(course))
            /\ response' = Ok("Course " \o course.name \o " updated successfully")
    /\ UNCHANGED <<activities, students, enrollments, attendance, payments, inflight>>

\* A faulty delete_course: courses.clear() instead of del courses[course_name].
delete_course_clears(course_name) ==
    /\ request' = Request("delete_course", <<course_name>>)
    /\ IF course_name \notin DOMAIN courses
       THEN /\ response' = HTTPException(404, "Course not found")
            /\ UNCHANGED courses
       ELSE /\ courses' = EmptyDict
            /\ response' = Ok("Course " \o course_name \o " deleted successfully")
    /\ UNCHANGED <<activities, students, enrollments, attendance, payments, inflight>>

delete_course(course_name) ==
    /\ request' = Request("delete_course", <<course_name>>)
    /\ IF course_name \notin DOMAIN courses
       THEN /\ response' = HTTPException(404, "Course not found")
            /\ UNCHANGED courses
       ELSE /\ courses' = Del(courses, course_name)
            /\ response' = Ok("Course " \o course_name \o " deleted successfully")
    /\ UNCHANGED <<activities, students, enrollments, attendance, payments, inflight>>

NextCourses ==
    \/ \E course \in Course : create_course(course)
    \/ \E course_name \in CourseNames, course \in Course :
           update_course(course_name, course)
    \/ \E course_name \in CourseNames : delete_course(course_name)

SpecCourses == Init /\ [][NextCourses]_vars

(***************************************************************************)
(* Enrollment management.                                                   *)
(***************************************************************************)
\* list(d.values()), as the set of the values.
Values(d) == {d[k] : k \in DOMAIN d}

get_all_enrollments == Values(enrollments)

\* f"{student_email}_{course_name}"
enrollment_key(student_email, course_name) == student_email \o "_" \o course_name

create_enrollment(enrollment) ==
    /\ request' = Request("create_enrollment", <<enrollment>>)
    /\ LET key == enrollment_key(enrollment.student_email, enrollment.course_name)
       IN  IF key \in DOMAIN enrollments
           THEN /\ response' = HTTPException(400, "Student already enrolled in this course")
                /\ UNCHANGED enrollments
           ELSE /\ enrollments' = Put(enrollments, key, dict(enrollment))
                /\ response' = Ok("Student " \o enrollment.student_email \o " enrolled in "
                                    \o enrollment.course_name)
    /\ UNCHANGED <<activities, students, courses, attendance, payments, inflight>>

delete_enrollment(student_email, course_name) ==
    /\ request' = Request("delete_enrollment", <<student_email, course_name>>)
    /\ LET key == enrollment_key(student_email, course_name)
       IN  IF key \notin DOMAIN enrollments
           THEN /\ response' = HTTPException(404, "Enrollment not found")
                /\ UNCHANGED enrollments
           ELSE /\ enrollments' = Del(enrollments, key)
                /\ response' = Ok("Student " \o student_email \o " unenrolled from "
                                    \o course_name)
    /\ UNCHANGED <<activities, students, courses, attendance, payments, inflight>>

NextEnrollments ==
    \/ \E enrollment \in Enrollment : create_enrollment(enrollment)
    \/ \E student_email \in EnrollmentEmails, course_name \in EnrollmentCourses :
           delete_enrollment(student_email, course_name)

SpecEnrollments == Init /\ [][NextEnrollments]_vars

(***************************************************************************)
(* Attendance and payment management.                                       *)
(***************************************************************************)
get_all_attendance == Values(attendance)

\* f"{student_email}_{course_name}_{date}"
attendance_key(student_email, course_name, date) ==
    student_email \o "_" \o course_name \o "_" \o date

record_attendance(attendance_record) ==
    /\ request' = Request("record_attendance", <<attendance_record>>)
    /\ LET key == attendance_key(attendance_record.student_email,
                                 attendance_record.course_name, attendance_record.date)
       IN  attendance' = Put(attendance, key, dict(attendance_record))
    /\ response' = Ok("Attendance recorded for " \o attendance_record.student_email)
    /\ UNCHANGED <<activities, students, courses, enrollments, payments, inflight>>

get_student_attendance(student_email) ==
    {record \in Values(attendance) : record.student_email = student_email}

get_all_payments == Values(payments)

\* f"{student_email}_{course_name}_{payment_date}"
payment_key(student_email, course_name, payment_date) ==
    student_email \o "_" \o course_name \o "_" \o payment_date

create_payment(payment) ==
    /\ request' = Request("create_payment", <<payment>>)
    /\ LET key == payment_key(payment.student_email, payment.course_name,
                              payment.payment_date)
       IN  payments' = Put(payments, key, dict(payment))
    /\ response' = Ok("Payment of $" \o FloatStr(payment.amount) \o " recorded for "
                        \o payment.student_email)
    /\ UNCHANGED <<activities, students, courses, enrollments, attendance, inflight>>

get_student_payments(student_email) ==
    {record \in Values(payments) : record.student_email = student_email}

NextRecords ==
    \/ \E attendance_record \in AttendanceRecord : record_attendance(attendance_record)
    \/ \E payment \in Payment : create_payment(payment)

SpecRecords == Init /\ [][NextRecords]_vars

(***************************************************************************)
(* A sign-up sheet handed down a class roster: each student on the roster   *)
(* signs up for Math Club in turn (or signs again), and the two seeded      *)
(* members may unregister.  Every run of it is a run of the API.            *)
(***************************************************************************)
Roster == <<"s1@x.edu", "s2@x.edu", "s3@x.edu", "s4@x.edu", "s5@x.edu",
            "s6@x.edu", "s7@x.edu", "s8@x.edu", "s9@x.edu">>

\* The roster entries up to and including the first one not yet signed up.
RosterTurn(participants) ==
    {Roster[i] : i \in {k \in 1..Len(Roster) :
                          \A j \in 1..(k - 1) : InList(Roster[j], participants)}}

RosterSignup == \E email \in RosterTurn(activities["Math Club"].participants) :
                    signup_for_activity("Math Club", email)

SeedUnregister == \E email \in Range(SeedActivities["Math Club"].participants) :
                      unregister_from_activity("Math Club", email)

NextCapacity == RosterSignup \/ SeedUnregister

SpecCapacity == Init /\ [][NextCapacity]_vars

(***************************************************************************)
(* Claims about activities.                                                 *)
(***************************************************************************)
participants(activity_name) == activities[activity_name].participants

NoDuplicateParticipants ==
    \A a \in DOMAIN activities :
        \A i, j \in 1..Len(participants(a)) :
            i # j => participants(a)[i] # participants(a)[j]

DuplicateSignupRejected ==
    \A a \in DOMAIN activities, e \in Emails :
        (/\ request' = Request("signup_for_activity", <<a, e>>)
         /\ InList(e, participants(a)))
        => /\ response'.status_code = 400
           /\ activities' = activities
           /\ Len(activities'[a].participants) = Len(participants(a))

\* C1: under atomic signup and unregister calls from the seeded activities no
\* participant list ever holds an email twice, and a signup of an email that is
\* already in the list answers 400 and leaves the list and its length unchanged.
C1_NoDuplicateParticipants ==
    [](NoDuplicateParticipants) /\ [][DuplicateSignupRejected]_vars

\* A second signup of new@x.edu for Chess Club was refused.
C1_Witness ==
    /\ request = Request("signup_for_activity", <<"Chess Club", "new@x.edu">>)
    /\ response.status_code = 400
    /\ InList("new@x.edu", participants("Chess Club"))

\* C2: a signup of an email that is not in an existing activity's list answers
\* 200 and appends the email after the previous participants, whose order is
\* kept; the email then occurs exactly once and every other activity is unchanged.
C2_SignupAppends ==
    [][\A a \in DOMAIN activities, e \in Emails :
         (/\ request' = Request("signup_for_activity", <<a, e>>)
          /\ ~InList(e, participants(a)))
         => /\ response'.status_code = 200
            /\ Count(activities'[a].participants, e) = 1
            /\ Len(activities'[a].participants) = Len(participants(a)) + 1
            /\ SubSeq(activities'[a].participants, 1, Len(participants(a))) = participants(a)
            /\ activities'[a].participants[Len(participants(a)) + 1] = e
            /\ \A b \in DOMAIN activities : b # a => activities'[b] = activities[b]]_vars

\* new@x.edu was signed up for Chess Club behind the two seeded members.
C2_Witness ==
    /\ request = Request("signup_for_activity", <<"Chess Club", "new@x.edu">>)
    /\ response.status_code = 200
    /\ participants("Chess Club") =
         <<"michael@mergington.edu", "daniel@mergington.edu", "new@x.edu">>

Without(s, x) == LET keep(y) == y # x IN SelectSeq(s, keep)

\* C3: unregister on an existing activity answers 400 and changes nothing when
\* the email is not in the list; when it is, it answers 200 and removes exactly
\* one occurrence, the other participants keeping their relative order.
C3_UnregisterRemovesOne ==
    [][\A a \in DOMAIN activities, e \in Emails :
         request' = Request("unregister_from_activity", <<a, e>>)
         => IF ~InList(e, participants(a))
            THEN response'.status_code = 400 /\ UNCHANGED stores
            ELSE /\ response'.status_code = 200
                 /\ Count(activities'[a].participants, e) = Count(participants(a), e) - 1
                 /\ Len(activities'[a].participants) = Len(participants(a)) - 1
                 /\ Without(activities'[a].participants, e) = Without(participants(a), e)
                 /\ \A b \in DOMAIN activities : b # a => activities'[b] = activities[b]]_vars

\* michael was unregistered from Chess Club after new@x.edu had joined: a removal
\* from the front of a three-member list.
C3_Witness ==
    /\ request = Request("unregister_from_activity", <<"Chess Club", "michael@mergington.edu">>)
    /\ response.status_code = 200
    /\ participants("Chess Club") = <<"daniel@mergington.edu", "new@x.edu">>

\* C4: the number of participants of every activity is at most its
\* max_participants.
C4_CapacityRespected ==
    \A a \in DOMAIN activities :
        Len(participants(a)) <= activities[a].max_participants

(***************************************************************************)
(* Claims about students and courses.                                       *)
(***************************************************************************)
\* C5: every stored student record is stored under the key equal to its own
\* email field, so no two stored records carry the same email.
C5_StudentKeyIsEmail ==
    /\ \A k \in DOMAIN students : students[k].email = k
    /\ \A k1, k2 \in DOMAIN students :
           k1 # k2 => students[k1].email # students[k2].email

\* C6: create_student with an email that is already a key answers 400 and
\* leaves the students mapping unchanged; with an email that is not a key it
\* answers 200 and get_all_students then holds the submitted record under it.
C6_CreateStudent ==
    [][\A student \in Student :
         request' = Request("create_student", <<student>>)
         => IF student.email \in DOMAIN get_all_students
            THEN response'.status_code = 400 /\ students' = students
            ELSE /\ response'.status_code = 200
                 /\ student.email \in DOMAIN get_all_students'
                 /\ get_all_students'[student.email] = student
                 /\ \A k \in DOMAIN students :
                        k \in DOMAIN students' /\ students'[k] = students[k]]_vars

\* A create for kim@x.edu was refused while a record with another name is stored.
C6_Witness ==
    /\ request.op = "create_student"
    /\ request.args[1].email = "kim@x.edu"
    /\ response.status_code = 400
    /\ "kim@x.edu" \in DOMAIN students
    /\ students["kim@x.edu"] # request.args[1]

\* C7: delete_course of a name that is not a key answers 404 and leaves the
\* mapping unchanged; of a name that is a key it removes exactly that entry;
\* and a name that is absent stays absent until create_course creates it.
C7_DeleteCourse ==
    [][/\ \A course_name \in CourseNames :
            request' = Request("delete_course", <<course_name>>)
            => IF course_name \notin DOMAIN get_all_courses
               THEN response'.status_code = 404 /\ courses' = courses
               ELSE /\ response'.status_code = 200
                    /\ DOMAIN get_all_courses' = (DOMAIN courses) \ {course_name}
                    /\ \A k \in DOMAIN courses' : courses'[k] = courses[k]
       /\ \A k \in (DOMAIN get_all_courses') \ (DOMAIN get_all_courses) :
            /\ request'.op = "create_course"
            /\ request'.args[1].name = k]_vars

\* Algebra was deleted while Biology stays stored.
C7_Witness ==
    /\ request = Request("delete_course", <<"Algebra">>)
    /\ response.status_code = 200
    /\ "Algebra" \notin DOMAIN courses
    /\ "Biology" \in DOMAIN courses

(***************************************************************************)
(* Claims about enrollments, attendance and payments.                       *)
(***************************************************************************)
EnrolledPairs == {<<e.student_email, e.course_name>> : e \in get_all_enrollments}

\* C8: create_enrollment answers 400 exactly when an enrollment of the same
\* (student_email, course_name) pair is stored, and otherwise adds the record;
\* delete_enrollment removes the enrollment of exactly its pair and no other.
C8_EnrollmentUniquePerPair ==
    [][/\ \A enrollment \in Enrollment :
            request' = Request("create_enrollment", <<enrollment>>)
            => LET pair == <<enrollment.student_email, enrollment.course_name>>
               IN  IF pair \in EnrolledPairs
                   THEN response'.status_code = 400 /\ enrollments' = enrollments
                   ELSE /\ response'.status_code = 200
                        /\ get_all_enrollments' = get_all_enrollments \cup {enrollment}
       /\ \A student_email \in EnrollmentEmails, course_name \in EnrollmentCourses :
            request' = Request("delete_enrollment", <<student_email, course_name>>)
            => EnrolledPairs' = EnrolledPairs \ {<<student_email, course_name>>}]_vars

AttendanceTriple(r) == <<r.student_email, r.course_name, r.date>>

PaymentTriple(r) == <<r.student_email, r.course_name, r.payment_date>>

\* C9: record_attendance always answers 200; afterwards exactly one stored
\* record has the submitted triple and it is the submitted one, and the stored
\* record of every other triple is unchanged and still returned by
\* get_student_attendance for its student; create_payment likewise.
C9_RecordTouchesOneKey ==
    [][/\ \A r \in AttendanceRecord :
            request' = Request("record_attendance", <<r>>)
            => /\ response'.status_code = 200
               /\ {x \in get_all_attendance' : AttendanceTriple(x) = AttendanceTriple(r)} = {r}
               /\ \A x \in get_all_attendance :
                      AttendanceTriple(x) # AttendanceTriple(r)
                      => x \in get_student_attendance(x.student_email)'
               /\ \A x \in get_all_attendance' :
                      AttendanceTriple(x) # AttendanceTriple(r) => x \in get_all_attendance
       /\ \A p \in Payment :
            request' = Request("create_payment", <<p>>)
            => /\ response'.status_code = 200
               /\ {x \in get_all_payments' : PaymentTriple(x) = PaymentTriple(p)} = {p}
               /\ \A x \in get_all_payments :
                      PaymentTriple(x) # PaymentTriple(p)
                      => x \in get_student_payments(x.student_email)'
               /\ \A x \in get_all_payments' :
                      PaymentTriple(x) # PaymentTriple(p) => x \in get_all_payments]_vars

(***************************************************************************)
(* Claim about concurrent signups.                                          *)
(***************************************************************************)
\* C10: of two signup requests for the same activity and email whose checks
\* and appends interleave, at most one is answered 200, and the participant
\* list never holds that email twice.
C10_ConcurrentSignupOnce ==
    /\ \A r1, r2 \in DOMAIN inflight :
           (/\ r1 # r2
            /\ inflight[r1].activity_name = inflight[r2].activity_name
            /\ inflight[r1].email = inflight[r2].email)
           => ~(inflight[r1].status_code = 200 /\ inflight[r2].status_code = 200)
    /\ \A a \in DOMAIN activities, e \in Emails : Count(participants(a), e) <= 1

====
